---- MODULE Spec2Model ----
(***************************************************************************)
(* Model of the Thumbtack automation bot: the poll cycle of ThumbtackBot   *)
(* (main.py), the mock marketplace gateway ThumbtackClient                 *)
(* (thumbtack_client.py), the slot search of CalendarClient                *)
(* (calendar_client.py) and the analysis adapter GPTClient (gpt_client.py).*)
(*                                                                         *)
(* Time is counted in whole hours on one axis: instant = day * 24 + hour,  *)
(* day 0 being the day the process runs (datetime.now()).  Weekdays follow *)
(* Python's convention, Monday = 0.  Optional values are sequences of      *)
(* length 0 (None) or 1.  A call's outcome is "True", "False" or "Raise". *)
(***************************************************************************)
EXTENDS Integers, Sequences, FiniteSets, TLC

VARIABLES
    pc,                 \* position of the process: start, idle, leads, messages, exited,
                        \* stopped; cal, called, gpt, clamp, clamped
    session_active,     \* ThumbtackClient.session_active
    service,            \* CalendarClient.service is not None
    gpt_available,      \* GPTClient.client is not None
    mock_leads,         \* ThumbtackClient.mock_leads
    mock_messages,      \* ThumbtackClient.mock_messages
    processed_leads,    \* keys of ThumbtackBot.processed_leads
    processed_messages, \* keys of ThumbtackBot.processed_messages
    batch,              \* the list fetched by the running pass
    idx,                \* position of the running pass in batch
    pass_log,           \* what the running pass did with each item of batch so far
    last_item,          \* the item handled by the latest step, with the calls it made
    dispatched,         \* per ledger and ID: how often it was classified and handled
    events,             \* events already in the Google calendar
    created,            \* events inserted by create_event, in order
    start_weekday,      \* weekday of day 0
    cal_res,            \* the latest direct call of a CalendarClient method
    timer               \* how the process was started and the state of its schedule

vars == <<pc, session_active, service, gpt_available, mock_leads, mock_messages,
          processed_leads, processed_messages, batch, idx, pass_log, last_item,
          dispatched, events, created, start_weekday, cal_res, timer>>

(***************************************************************************)
(* Bounds of the model and constants of the program.                       *)
(***************************************************************************)
MaxEvents == 2          \* events in the calendar at start
MaxDur == 3             \* longest slot duration asked for, in hours
MaxQueryFailures == 1   \* conflict queries that raise during one call

base_price == 150       \* config.base_price
TzOffsetHours == 5      \* config.timezone America/New_York (EST) behind UTC

DefaultBusinessHours == <<9, 17>>
DefaultDuration == 2

None == <<>>
Some(v) == <<v>>

Take(s, n) == SubSeq(s, 1, IF Len(s) < n THEN Len(s) ELSE n)

SeqToSet(s) == {s[i] : i \in 1..Len(s)}

(***************************************************************************)
(* CalendarClient                                                          *)
(***************************************************************************)

\* Python's datetime.weekday() of a day of the axis.
weekday(day) == (start_weekday + day) % 7

\* The events the bot inserted, as the calendar holds them: create_event
\* labels the naive local time with config.timezone, while the conflict
\* query labels its naive window with 'Z'.
CreatedOnAxis ==
    {[start |-> created[i].start_time + TzOffsetHours,
      end |-> created[i].end_time + TzOffsetHours,
      aware |-> TRUE] : i \in 1..Len(created)}

\* events().list(timeMin, timeMax, singleEvents): the events that end after
\* timeMin and start before timeMax.
EventsList(timeMin, timeMax) ==
    {ev \in events \cup CreatedOnAxis : ev.end > timeMin /\ ev.start < timeMax}

\* The comparison of the naive window with an event's parsed times.  A
\* dateTime with an offset parses to an aware datetime, and comparing it with
\* the naive start_time raises TypeError.
CompareRaises(ev) == ev.aware

Conflict(start_time, end_time, ev) == start_time < ev.end /\ end_time > ev.start

\* As check_availability but only an event starting inside the slot blocks it.
check_availability_startonly(start_time, end_time, qfail) ==
    IF ~service THEN FALSE
    ELSE IF start_time \in qfail THEN FALSE
    ELSE ~(\E ev \in events \cup CreatedOnAxis :
             start_time <= ev.start /\ ev.start < end_time)

\* check_availability(start_time, end_time); qfail holds the window starts
\* whose events().list call raises.  Every exception ends in `return False`.
check_availability(start_time, end_time, qfail) ==
    IF ~service THEN FALSE
    ELSE IF start_time \in qfail THEN FALSE
    ELSE LET found == EventsList(start_time, end_time)
         IN  IF found = {} THEN TRUE
             ELSE ~(\E ev \in found :
                      CompareRaises(ev) \/ Conflict(start_time, end_time, ev))

\* The while loop of get_available_slots from current_time on.
RECURSIVE SlotSweep(_, _, _, _)
SlotSweep(current_time, end_time, duration_hours, qfail) ==
    IF current_time + duration_hours <= end_time
    THEN (IF check_availability(current_time, current_time + duration_hours, qfail)
          THEN <<current_time>> ELSE <<>>)
         \o SlotSweep(current_time + 1, end_time, duration_hours, qfail)
    ELSE <<>>

\* get_available_slots(date, duration_hours, business_hours); date.replace
\* raises ValueError for an hour outside 0..23, which the method catches.
get_available_slots(day, duration_hours, business_hours, qfail) ==
    IF ~service THEN <<>>
    ELSE IF ~(business_hours[1] \in 0..23 /\ business_hours[2] \in 0..23) THEN <<>>
    ELSE SlotSweep(day * 24 + business_hours[1], day * 24 + business_hours[2],
                   duration_hours, qfail)

\* As SlotSweepQueries, with the next candidate one slot length later, so
\* that the candidates do not overlap.
RECURSIVE SlotSweepQueries_stride(_, _, _)
SlotSweepQueries_stride(current_time, end_time, duration_hours) ==
    IF current_time + duration_hours <= end_time
    THEN <<current_time>>
         \o SlotSweepQueries_stride(current_time + duration_hours, end_time,
                                    duration_hours)
    ELSE <<>>

\* The calls of check_availability the while loop of get_available_slots
\* makes from current_time on, by their window start; each call makes one
\* events().list query.
RECURSIVE SlotSweepQueries(_, _, _)
SlotSweepQueries(current_time, end_time, duration_hours) ==
    IF current_time + duration_hours <= end_time
    THEN <<current_time>>
         \o SlotSweepQueries(current_time + 1, end_time, duration_hours)
    ELSE <<>>

\* The conflict queries of one call of get_available_slots.
SlotQueries(day, duration_hours, business_hours) ==
    IF ~service THEN <<>>
    ELSE IF ~(business_hours[1] \in 0..23 /\ business_hours[2] \in 0..23) THEN <<>>
    ELSE SlotSweepQueries(day * 24 + business_hours[1], day * 24 + business_hours[2],
                          duration_hours)

\* As SuggestScan but weekend days are searched like any other day.
RECURSIVE SuggestScan_weekends(_, _, _, _, _)
SuggestScan_weekends(preferred_day, days_offset, suggested_times, duration_hours, qfail) ==
    IF days_offset > 6 THEN suggested_times
    ELSE LET check_day == preferred_day + days_offset
             more == suggested_times \o
                     Take(get_available_slots(check_day, duration_hours,
                                              DefaultBusinessHours, qfail), 3)
         IN  IF Len(more) >= 6 THEN more
             ELSE SuggestScan_weekends(preferred_day, days_offset + 1, more,
                                       duration_hours, qfail)

\* The for loop of suggest_meeting_times from days_offset on.
RECURSIVE SuggestScan(_, _, _, _, _)
SuggestScan(preferred_day, days_offset, suggested_times, duration_hours, qfail) ==
    IF days_offset > 6 THEN suggested_times
    ELSE LET check_day == preferred_day + days_offset
         IN  IF weekday(check_day) >= 5
             THEN SuggestScan(preferred_day, days_offset + 1, suggested_times,
                              duration_hours, qfail)
             ELSE LET more == suggested_times \o
                              Take(get_available_slots(check_day, duration_hours,
                                                       DefaultBusinessHours, qfail), 3)
                  IN  IF Len(more) >= 6 THEN more
                      ELSE SuggestScan(preferred_day, days_offset + 1, more,
                                       duration_hours, qfail)

\* suggest_meeting_times(preferred_date, duration_hours); without a preferred
\* date the search starts tomorrow.
suggest_meeting_times(preferred_date, duration_hours, qfail) ==
    LET preferred_day == IF preferred_date = None THEN 1 ELSE preferred_date[1]
    IN  Take(SuggestScan(preferred_day, 0, <<>>, duration_hours, qfail), 6)

(***************************************************************************)
(* ThumbtackClient.  The operators work on a record w of the gateway's     *)
(* lists, the calendar insertions, the calls made so far by the item being *)
(* handled and the number of _save_mock_data calls it has made.  env holds *)
(* what the surroundings decide during the item: which of its              *)
(* _save_mock_data calls raise, the oracle's reply, the ID drawn for a sent*)
(* message, whether the calendar answers.                                  *)
(***************************************************************************)

NoCall == [op |-> "-", lead_id |-> "-", status |-> "-", prev |-> "-",
           price |-> None, content |-> "-", slots |-> <<>>, event |-> None,
           ok |-> TRUE]

Log(w, call) == [w EXCEPT !.calls = Append(@, call)]

\* Whether the next _save_mock_data call of the item raises (an I/O error).
SaveRaises(w, env) == w.nsave + 1 \in DOMAIN env.saves /\ env.saves[w.nsave + 1]

\* As send_message_return, without the method's try/except.
send_message_return_uncaught(save_raised) == IF save_raised THEN "Raise" ELSE "True"

\* What send_message returns: its except clause turns an error into False.
send_message_return(save_raised) == IF save_raised THEN "False" ELSE "True"

\* send_message(lead_id, content): the message is appended to mock_messages
\* with sender "business" before the lists are saved.
send_message(w, lead_id, content, slots, env) ==
    LET ret == send_message_return(SaveRaises(w, env))
        w1 == [w EXCEPT !.messages = Append(@, [id |-> env.new_id,
                                                lead_id |-> lead_id,
                                                sender |-> "business"]),
                        !.nsave = @ + 1]
    IN  [w |-> Log(w1, [NoCall EXCEPT !.op = "send_message", !.lead_id = lead_id,
                                      !.content = content, !.slots = slots,
                                      !.ok = (ret = "True")]),
         ret |-> ret]

\* Position of the first lead of mock_leads with this ID, 0 when there is none.
FirstLead(leads, lead_id) ==
    IF \E i \in 1..Len(leads) : leads[i].id = lead_id
    THEN CHOOSE i \in 1..Len(leads) :
            /\ leads[i].id = lead_id
            /\ \A j \in 1..(i - 1) : leads[j].id # lead_id
    ELSE 0

\* update_lead_status(lead_id, status): the first matching lead gets the
\* status, then the lists are saved; an error there leaves the new status in
\* memory and returns False.
update_lead_status(w, lead_id, status, env) ==
    LET i == FirstLead(w.leads, lead_id)
    IN  IF i = 0
        THEN [w |-> Log(w, [NoCall EXCEPT !.op = "update_lead_status",
                                          !.lead_id = lead_id, !.status = status,
                                          !.prev = "missing", !.ok = FALSE]),
              ret |-> "False"]
        ELSE LET ok == ~SaveRaises(w, env)
                 w1 == [w EXCEPT !.leads[i].status = status, !.nsave = @ + 1]
             IN  [w |-> Log(w1, [NoCall EXCEPT !.op = "update_lead_status",
                                               !.lead_id = lead_id,
                                               !.status = status,
                                               !.prev = w.leads[i].status,
                                               !.ok = ok]),
                  ret |-> IF ok THEN "True" ELSE "False"]

\* As send_quote, but the status becomes QUOTED whether or not the send worked.
send_quote_always(w, lead_id, price, env) ==
    LET w0 == Log(w, [NoCall EXCEPT !.op = "send_quote", !.lead_id = lead_id,
                                    !.price = Some(price)])
        sent == send_message(w0, lead_id, "quote", <<>>, env)
    IN  [w |-> update_lead_status(sent.w, lead_id, "quoted", env).w,
         ret |-> IF sent.ret = "True" THEN "True" ELSE "False"]

\* send_quote(lead_id, price, description): send_message, then QUOTED when it
\* returned True; any exception is caught and gives False.
send_quote(w, lead_id, price, env) ==
    LET w0 == Log(w, [NoCall EXCEPT !.op = "send_quote", !.lead_id = lead_id,
                                    !.price = Some(price)])
        sent == send_message(w0, lead_id, "quote", <<>>, env)
    IN  IF sent.ret = "True"
        THEN [w |-> update_lead_status(sent.w, lead_id, "quoted", env).w,
              ret |-> "True"]
        ELSE [w |-> sent.w, ret |-> "False"]

\* get_new_leads(): the leads whose status is "new", in list order; nothing
\* without a session.
get_new_leads ==
    IF ~session_active THEN <<>>
    ELSE SelectSeq(mock_leads, LAMBDA l : l.status = "new")

\* get_new_messages(): every message of mock_messages; nothing without a session.
get_new_messages ==
    IF ~session_active THEN <<>> ELSE mock_messages

(***************************************************************************)
(* GPTClient                                                               *)
(***************************************************************************)

Max2(a, b) == IF a > b THEN a ELSE b
Min2(a, b) == IF a < b THEN a ELSE b

\* dict.get(key, default) on the decoded reply; None is a key the reply lacks.
Get(field, default) == IF field = None THEN default ELSE field[1]

\* As _get_fallback_analysis, with the base price whatever the budget.
_get_fallback_analysis_noclamp(lead) ==
    [sentiment |-> "neutral", intent |-> "quote_request", urgency |-> "medium",
     suggested_price |-> Some(base_price),
     key_requirements |-> <<lead.service_category>>,
     suggested_response |-> "fallback text", confidence_score |-> 5]

\* As FallbackClamp, with the upper end of the budget only.
FallbackClamp_upperonly(price, budget_range) == Min2(budget_range[2], price)

\* min(max_budget, max(min_budget, config.base_price)) of _get_fallback_analysis.
FallbackClamp(price, budget_range) ==
    Min2(budget_range[2], Max2(budget_range[1], price))

\* _get_fallback_analysis(lead)
_get_fallback_analysis(lead) ==
    [sentiment |-> "neutral",
     intent |-> "quote_request",
     urgency |-> "medium",
     suggested_price |->
        IF Len(lead.budget_range) > 0
        THEN Some(FallbackClamp(base_price, lead.budget_range))
        ELSE Some(base_price),
     key_requirements |-> <<lead.service_category>>,
     suggested_response |-> "fallback text",
     confidence_score |-> 5]

\* _get_fallback_message_analysis(message)
_get_fallback_message_analysis(message) ==
    [sentiment |-> "neutral",
     intent |-> "question",
     urgency |-> "medium",
     suggested_price |-> None,
     key_requirements |-> <<>>,
     suggested_response |-> "fallback text",
     confidence_score |-> 5]

\* GPTAnalysis(...) built from the decoded reply; the confidence score is
\* counted in tenths and the model's validation wants it in [0, 1].
BuildAnalysis(data, default_intent) ==
    [sentiment |-> "neutral",
     intent |-> Get(data.intent, default_intent),
     urgency |-> "medium",
     suggested_price |-> data.suggested_price,
     key_requirements |-> <<>>,
     suggested_response |-> Get(data.suggested_response, ""),
     confidence_score |-> Get(data.confidence_score, 8)]

ValidAnalysis(a) == a.confidence_score >= 0 /\ a.confidence_score <= 10

\* As analyze_lead, with the reply used even when GPTAnalysis would reject it.
analyze_lead_novalidation(lead, reply) ==
    IF ~gpt_available \/ reply.kind # "json"
    THEN [analysis |-> _get_fallback_analysis(lead), fallback |-> TRUE]
    ELSE [analysis |-> BuildAnalysis(reply.data, "quote_request"), fallback |-> FALSE]

\* analyze_lead(lead): the fallback without a client, on an error of the
\* request, on a reply that is no JSON and on a reply GPTAnalysis rejects.
analyze_lead(lead, reply) ==
    IF ~gpt_available THEN [analysis |-> _get_fallback_analysis(lead), fallback |-> TRUE]
    ELSE IF reply.kind # "json"
         THEN [analysis |-> _get_fallback_analysis(lead), fallback |-> TRUE]
         ELSE IF ~ValidAnalysis(BuildAnalysis(reply.data, "quote_request"))
              THEN [analysis |-> _get_fallback_analysis(lead), fallback |-> TRUE]
              ELSE [analysis |-> BuildAnalysis(reply.data, "quote_request"),
                    fallback |-> FALSE]

\* analyze_message(message, lead)
analyze_message(message, reply) ==
    IF ~gpt_available
    THEN [analysis |-> _get_fallback_message_analysis(message), fallback |-> TRUE]
    ELSE IF reply.kind # "json"
         THEN [analysis |-> _get_fallback_message_analysis(message), fallback |-> TRUE]
         ELSE IF ~ValidAnalysis(BuildAnalysis(reply.data, "question"))
              THEN [analysis |-> _get_fallback_message_analysis(message),
                    fallback |-> TRUE]
              ELSE [analysis |-> BuildAnalysis(reply.data, "question"),
                    fallback |-> FALSE]

\* As CreateCalls, with the request made a second time after an error.
CreateCalls_retry(reply) ==
    IF ~gpt_available THEN 0
    ELSE IF reply.kind = "error" THEN 2
    ELSE 1

\* The chat.completions.create calls one call of analyze_lead, of
\* analyze_message or of generate_quote_response makes: none without a
\* client, else the one of its try block, whose error or unusable reply
\* leads straight to the return of the fallback.
CreateCalls(reply) == IF ~gpt_available THEN 0 ELSE 1

\* generate_quote_response(lead, price, additional_info): the text of the
\* reply, whatever it is, or the fallback text.
generate_quote_response(lead, price, reply) ==
    IF ~gpt_available THEN [text |-> "fallback_quote", fallback |-> TRUE]
    ELSE IF reply.kind = "error" THEN [text |-> "fallback_quote", fallback |-> TRUE]
    ELSE [text |-> "generated", fallback |-> FALSE]

(***************************************************************************)
(* ThumbtackBot: the handlers.  Each returns the record w after its calls  *)
(* and whether an exception left it.                                       *)
(***************************************************************************)

\* The window starts whose conflict query raises while the calendar is down.
QueryFailures(env) == IF env.cal_down THEN 0..(24 * 16) ELSE {}

\* `suggested_price or base`: None and 0 are both false.
PriceOr(suggested_price, base) ==
    IF suggested_price = None \/ suggested_price[1] = 0 THEN base
    ELSE suggested_price[1]

\* analysis.suggested_price or config.base_price
QuotePrice(analysis) == PriceOr(analysis.suggested_price, base_price)

\* As ClampBudget, with the two comparisons exchanged.
ClampBudget_swapped(suggested_price, budget_range) ==
    IF Len(budget_range) > 0
    THEN IF suggested_price > budget_range[2] THEN budget_range[1]
         ELSE IF suggested_price < budget_range[1] THEN budget_range[2]
         ELSE suggested_price
    ELSE suggested_price

\* The budget check of _handle_quote_request.
ClampBudget(suggested_price, budget_range) ==
    IF Len(budget_range) > 0
    THEN IF suggested_price > budget_range[2] THEN budget_range[2]
         ELSE IF suggested_price < budget_range[1] THEN budget_range[1]
         ELSE suggested_price
    ELSE suggested_price

\* _handle_quote_request(lead, analysis); its try/except keeps every
\* exception inside.
_handle_quote_request(w, lead, analysis, env) ==
    [w |-> send_quote(w, lead.id,
                      ClampBudget(QuotePrice(analysis), lead.budget_range), env).w,
     raised |-> FALSE]

\* As SendTimes, with nothing sent when no time is available.
SendTimes_silent(w, lead_id, available_times, env) ==
    IF available_times # <<>>
    THEN send_message(w, lead_id, "offer", Take(available_times, 3), env)
    ELSE [w |-> w, ret |-> "False"]

\* As SendTimes, with every suggested time listed in the offer.
SendTimes_allslots(w, lead_id, available_times, env) ==
    IF available_times # <<>>
    THEN send_message(w, lead_id, "offer", available_times, env)
    ELSE send_message(w, lead_id, "holding", <<>>, env)

\* The offer or holding message both scheduling handlers send.
SendTimes(w, lead_id, available_times, env) ==
    IF available_times # <<>>
    THEN send_message(w, lead_id, "offer", Take(available_times, 3), env)
    ELSE send_message(w, lead_id, "holding", <<>>, env)

\* _handle_scheduling_request(lead, analysis): the preferred date of the lead,
\* else a week from now.
_handle_scheduling_request(w, lead, analysis, env) ==
    LET preferred_date == IF lead.preferred_date = None THEN Some(7)
                          ELSE lead.preferred_date
        available_times == suggest_meeting_times(preferred_date, DefaultDuration,
                                                 QueryFailures(env))
    IN  [w |-> SendTimes(w, lead.id, available_times, env).w, raised |-> FALSE]

\* As _handle_general_inquiry, with the reply sent a second time.
_handle_general_inquiry_twice(w, lead, analysis, env) ==
    LET content == IF analysis.suggested_response = "" THEN "generic"
                   ELSE "suggested_response"
        once == send_message(w, lead.id, content, <<>>, env).w
    IN  [w |-> send_message(once, lead.id, content, <<>>, env).w, raised |-> FALSE]

\* _handle_general_inquiry(lead, analysis)
_handle_general_inquiry(w, lead, analysis, env) ==
    [w |-> send_message(w, lead.id,
                        IF analysis.suggested_response = "" THEN "generic"
                        ELSE "suggested_response", <<>>, env).w,
     raised |-> FALSE]

\* _handle_scheduling_message(message, lead, analysis)
_handle_scheduling_message(w, message, analysis, env) ==
    LET available_times == suggest_meeting_times(None, DefaultDuration,
                                                 QueryFailures(env))
    IN  [w |-> SendTimes(w, message.lead_id, available_times, env).w,
         raised |-> FALSE]

\* create_event(event): None without a service or when the insertion raises.
create_event(w, event, env) ==
    IF ~service \/ env.insert_fails
    THEN [w |-> Log(w, [NoCall EXCEPT !.op = "create_event",
                                      !.lead_id = event.lead_id,
                                      !.event = Some(event), !.ok = FALSE]),
          ret |-> None]
    ELSE [w |-> Log([w EXCEPT !.created = Append(@, event)],
                    [NoCall EXCEPT !.op = "create_event",
                                   !.lead_id = event.lead_id,
                                   !.event = Some(event)]),
          ret |-> Some("event")]

\* _get_lead_by_id(lead_id)
_get_lead_by_id(lead_id) == None

\* As _handle_booking_confirmation, with the status update made before the
\* outcome of create_event is looked at.
_handle_booking_confirmation_alwaysbooked(w, message, lead, analysis, env) ==
    LET calendar_event == [lead_id |-> message.lead_id, title |-> "Client",
                           start_time |-> 1 * 24 + 14, end_time |-> 1 * 24 + 16,
                           attendees |-> <<>>]
        made == create_event(w, calendar_event, env)
        upd == update_lead_status(made.w, message.lead_id, "booked", env)
    IN  [w |-> send_message(upd.w, message.lead_id,
                            IF made.ret # None THEN "confirmation"
                            ELSE "confirming_shortly", <<>>, env).w,
         raised |-> FALSE]

\* As _handle_booking_confirmation, with no event submitted when the bot
\* has already inserted one for the same start.
_handle_booking_confirmation_checked(w, message, lead, analysis, env) ==
    LET start_time == 1 * 24 + 14
        calendar_event == [lead_id |-> message.lead_id,
                           title |-> IF lead = None THEN "Client" ELSE "customer_name",
                           start_time |-> start_time,
                           end_time |-> start_time + 2,
                           attendees |-> <<>>]
        taken == \E i \in 1..Len(w.created) : w.created[i].start_time = start_time
        made == IF taken THEN [w |-> w, ret |-> None]
                ELSE create_event(w, calendar_event, env)
    IN  IF made.ret # None
        THEN [w |-> send_message(
                        update_lead_status(made.w, message.lead_id, "booked", env).w,
                        message.lead_id, "confirmation", <<>>, env).w,
              raised |-> FALSE]
        ELSE [w |-> send_message(made.w, message.lead_id, "confirming_shortly",
                                 <<>>, env).w,
              raised |-> FALSE]

\* As _handle_booking_confirmation, with the event on the day of handling.
_handle_booking_confirmation_today(w, message, lead, analysis, env) ==
    LET start_time == 14
        calendar_event == [lead_id |-> message.lead_id,
                           title |-> IF lead = None THEN "Client" ELSE "customer_name",
                           start_time |-> start_time,
                           end_time |-> start_time + 2,
                           attendees |-> <<>>]
        made == create_event(w, calendar_event, env)
    IN  IF made.ret # None
        THEN [w |-> send_message(
                        update_lead_status(made.w, message.lead_id, "booked", env).w,
                        message.lead_id, "confirmation", <<>>, env).w,
              raised |-> FALSE]
        ELSE [w |-> send_message(made.w, message.lead_id, "confirming_shortly",
                                 <<>>, env).w,
              raised |-> FALSE]

\* _handle_booking_confirmation(message, lead, analysis): an event tomorrow
\* from 14:00 for 2 hours.
_handle_booking_confirmation(w, message, lead, analysis, env) ==
    LET start_time == 1 * 24 + 14
        calendar_event == [lead_id |-> message.lead_id,
                           title |-> IF lead = None THEN "Client" ELSE "customer_name",
                           start_time |-> start_time,
                           end_time |-> start_time + 2,
                           attendees |-> <<>>]
        made == create_event(w, calendar_event, env)
    IN  IF made.ret # None
        THEN [w |-> send_message(
                        update_lead_status(made.w, message.lead_id, "booked", env).w,
                        message.lead_id, "confirmation", <<>>, env).w,
              raised |-> FALSE]
        ELSE [w |-> send_message(made.w, message.lead_id, "confirming_shortly",
                                 <<>>, env).w,
              raised |-> FALSE]

\* _handle_question and _handle_general_message: no try/except of their own.
HandleReply(w, message, analysis, env) ==
    LET sent == send_message(w, message.lead_id,
                             IF analysis.suggested_response = "" THEN "generic"
                             ELSE "suggested_response", <<>>, env)
    IN  [w |-> sent.w, raised |-> sent.ret = "Raise"]

_handle_question(w, message, analysis, env) == HandleReply(w, message, analysis, env)

_handle_general_message(w, message, analysis, env) ==
    HandleReply(w, message, analysis, env)

(***************************************************************************)
(* ThumbtackBot: the two passes of a poll cycle.                           *)
(***************************************************************************)

ItemStart == [leads |-> mock_leads, messages |-> mock_messages,
              created |-> created, calls |-> <<>>, nsave |-> 0]

\* As SeenLead, with the ledger never consulted.
SeenLead_never(lead) == FALSE

\* `lead.id in self.processed_leads`
SeenLead(lead) == lead.id \in processed_leads

\* As SkipMessage, with one ledger for leads and messages.
SkipMessage_oneledger(message) ==
    \/ message.id \in processed_messages \cup processed_leads
    \/ message.sender = "business"

\* As SkipMessage, without the test of the sender.
SkipMessage_anysender(message) == message.id \in processed_messages

\* `message.id in self.processed_messages or message.sender == "business"`
SkipMessage(message) ==
    message.id \in processed_messages \/ message.sender = "business"

\* As FinishLead, with the ledger written but no status update issued.
FinishLead_nostatus(w, lead, env) ==
    [w |-> Log(w, [NoCall EXCEPT !.op = "mark_lead", !.lead_id = lead.id]),
     marked |-> TRUE, raised |-> FALSE]

\* As FinishLead, with the status update issued before the ledger is written.
FinishLead_statusfirst(w, lead, env) ==
    LET upd == update_lead_status(w, lead.id, "contacted", env)
    IN  [w |-> Log(upd.w, [NoCall EXCEPT !.op = "mark_lead", !.lead_id = lead.id]),
         marked |-> TRUE, raised |-> FALSE]

\* The end of a lead's handling: the ID is put in the ledger, then the
\* status update to CONTACTED is issued.
FinishLead(w, lead, env) ==
    LET w1 == Log(w, [NoCall EXCEPT !.op = "mark_lead", !.lead_id = lead.id])
        upd == update_lead_status(w1, lead.id, "contacted", env)
    IN  [w |-> upd.w, marked |-> TRUE, raised |-> upd.ret = "Raise"]

\* As LeadHandler, with the quote handler as the branch for any other intent.
LeadHandler_defaultquote(intent) ==
    IF intent = "scheduling" THEN "_handle_scheduling_request"
    ELSE "_handle_quote_request"

\* The if/elif/else over analysis.intent in process_new_leads.
LeadHandler(intent) ==
    IF intent = "quote_request" THEN "_handle_quote_request"
    ELSE IF intent = "scheduling" THEN "_handle_scheduling_request"
         ELSE "_handle_general_inquiry"

\* The if/elif/else over analysis.intent in process_new_messages.
MessageHandler(intent) ==
    IF intent = "scheduling" THEN "_handle_scheduling_message"
    ELSE IF intent = "booking" THEN "_handle_booking_confirmation"
         ELSE IF intent = "question" THEN "_handle_question"
              ELSE "_handle_general_message"

\* The body of the loop of process_new_leads for a lead not seen before.
LeadItem(lead, env) ==
    LET got == analyze_lead(lead, env.reply)
        w1 == Log(ItemStart, [NoCall EXCEPT !.op = "analyze_lead",
                                            !.lead_id = lead.id,
                                            !.ok = ~got.fallback])
        handler == LeadHandler(got.analysis.intent)
        h == IF handler = "_handle_quote_request"
             THEN _handle_quote_request(w1, lead, got.analysis, env)
             ELSE IF handler = "_handle_scheduling_request"
                  THEN _handle_scheduling_request(w1, lead, got.analysis, env)
                  ELSE _handle_general_inquiry(w1, lead, got.analysis, env)
        fin == IF h.raised THEN [w |-> h.w, marked |-> FALSE, raised |-> TRUE]
               ELSE FinishLead(h.w, lead, env)
    IN  [w |-> fin.w, marked |-> fin.marked, raised |-> fin.raised,
         analysis |-> got.analysis, fallback |-> got.fallback, handler |-> handler]

\* As FinishMessage, with the ledger written only when every call of the
\* handler succeeded.
FinishMessage_onsuccess(w, message) ==
    IF \A i \in 1..Len(w.calls) : w.calls[i].ok
    THEN [w |-> Log(w, [NoCall EXCEPT !.op = "mark_message",
                                      !.lead_id = message.lead_id]),
          marked |-> TRUE]
    ELSE [w |-> w, marked |-> FALSE]

\* The end of a message's handling: the ID is put in the ledger.
FinishMessage(w, message) ==
    [w |-> Log(w, [NoCall EXCEPT !.op = "mark_message", !.lead_id = message.lead_id]),
     marked |-> TRUE]

\* The body of the loop of process_new_messages for a message it handles.
MessageItem(message, env) ==
    LET lead == _get_lead_by_id(message.lead_id)
        got == analyze_message(message, env.reply)
        w1 == Log(ItemStart, [NoCall EXCEPT !.op = "analyze_message",
                                            !.lead_id = message.lead_id,
                                            !.ok = ~got.fallback])
        handler == MessageHandler(got.analysis.intent)
        h == IF handler = "_handle_scheduling_message"
             THEN _handle_scheduling_message(w1, message, got.analysis, env)
             ELSE IF handler = "_handle_booking_confirmation"
                  THEN _handle_booking_confirmation(w1, message, lead,
                                                    got.analysis, env)
                  ELSE IF handler = "_handle_question"
                       THEN _handle_question(w1, message, got.analysis, env)
                       ELSE _handle_general_message(w1, message, got.analysis, env)
        fin == IF h.raised THEN [w |-> h.w, marked |-> FALSE]
               ELSE FinishMessage(h.w, message)
    IN  [w |-> fin.w, marked |-> fin.marked, raised |-> h.raised,
         analysis |-> got.analysis, fallback |-> got.fallback, handler |-> handler]

\* Something went wrong while the item was handled: the oracle gave no usable
\* reply, or a call of the item returned a failure.
ItemFailed(res) ==
    res.raised \/ res.fallback \/ \E i \in 1..Len(res.w.calls) : ~res.w.calls[i].ok

(***************************************************************************)
(* The process: construction, initialize(), then poll cycles.              *)
(***************************************************************************)

MaxLeads == 2           \* leads in mock_leads.json at start
MaxMessages == 2        \* messages in mock_messages.json at start
MaxTicks == 2           \* periods that pass before the schedule is looked at again

LeadPool ==
    {[id |-> "a", status |-> "new", budget_range |-> <<100, 200>>,
      preferred_date |-> None, service_category |-> "Photography"],
     [id |-> "b", status |-> "new", budget_range |-> <<>>,
      preferred_date |-> Some(3), service_category |-> "Photography"]}

MessagePool ==
    {[id |-> "a", lead_id |-> "a", sender |-> "customer"],
     [id |-> "m1", lead_id |-> "z", sender |-> "customer"]}

BotIds == {"bot"}

AllIds == {"a", "b", "m1", "bot"}

SeqsUpTo(pool, n) == UNION {[1..k -> pool] : k \in 0..n}

NoJson == [intent |-> None, suggested_price |-> None,
           suggested_response |-> None, confidence_score |-> None]

LeadJson ==
    {[NoJson EXCEPT !.suggested_price = Some(250), !.suggested_response = Some("text")],
     [NoJson EXCEPT !.intent = Some("quote_request"), !.suggested_price = Some(0)],
     [NoJson EXCEPT !.intent = Some("quote_request"), !.suggested_price = Some(-50)],
     [NoJson EXCEPT !.intent = Some("scheduling")],
     [NoJson EXCEPT !.intent = Some("question"), !.suggested_response = Some("text")],
     [NoJson EXCEPT !.intent = Some("other"), !.suggested_response = Some("")],
     [NoJson EXCEPT !.intent = Some("scheduling"), !.confidence_score = Some(15)]}

MessageJson ==
    {[NoJson EXCEPT !.suggested_response = Some("text")],
     [NoJson EXCEPT !.intent = Some("question"), !.suggested_response = Some("")],
     [NoJson EXCEPT !.intent = Some("scheduling")],
     [NoJson EXCEPT !.intent = Some("booking")],
     [NoJson EXCEPT !.intent = Some("complaint"), !.suggested_response = Some("text")],
     [NoJson EXCEPT !.intent = Some("other")],
     [NoJson EXCEPT !.intent = Some("booking"), !.confidence_score = Some(-1)]}

\* What a request to the oracle can end in.
Replies(json) ==
    {[kind |-> "error", data |-> NoJson], [kind |-> "not_json", data |-> NoJson]}
    \cup {[kind |-> "json", data |-> d] : d \in json}

\* The replies a request can get; without a client no request is made.
RepliesNow(json) ==
    IF gpt_available THEN Replies(json) ELSE {[kind |-> "error", data |-> NoJson]}

\* What the surroundings can decide while a lead is handled, given the
\* oracle's reply: the handler chosen makes at most 3 (quote) or 2 saves and
\* only the scheduling handler asks the calendar.
LeadEnvs(lead, reply) ==
    LET intent == analyze_lead(lead, reply).analysis.intent
    IN  [reply : {reply},
         saves : [1..(IF intent = "quote_request" THEN 3 ELSE 2) -> BOOLEAN],
         cal_down : IF intent = "scheduling" THEN BOOLEAN ELSE {FALSE},
         insert_fails : {FALSE},
         new_id : BotIds]

\* The same for a message: 2 saves for a booking, 1 otherwise.
MessageEnvs(message, reply) ==
    LET intent == analyze_message(message, reply).analysis.intent
    IN  [reply : {reply},
         saves : [1..(IF intent = "booking" THEN 2 ELSE 1) -> BOOLEAN],
         cal_down : IF intent = "scheduling" THEN BOOLEAN ELSE {FALSE},
         insert_fails : IF intent = "booking" THEN BOOLEAN ELSE {FALSE},
         new_id : BotIds]

NoDispatch ==
    [k \in {"lead_classified", "lead_handled", "message_classified", "message_handled"}
        |-> [id \in AllIds |-> 0]]

NoItem == [kind |-> "none", id |-> "-", lead_id |-> "-", sender |-> "-",
           budget_range |-> <<>>, reply |-> [kind |-> "none", data |-> NoJson],
           analysis |-> _get_fallback_message_analysis("-"), fallback |-> FALSE,
           handler |-> "-", calls |-> <<>>, raised |-> FALSE, marked |-> FALSE]

\* No job scheduled: due counts the periods of check_interval_minutes that
\* have passed since the time the scheduled job was set to run next.
NoTimer == [mode |-> "-", due |-> 0]

NoCalRes == [op |-> "none", day |-> None, duration_hours |-> 0,
             business_hours |-> DefaultBusinessHours, qfail |-> {}, queries |-> <<>>,
             result |-> <<>>]

Init ==
    /\ pc = "start"
    /\ session_active = FALSE
    /\ service = FALSE
    /\ gpt_available \in BOOLEAN
    /\ mock_leads \in SeqsUpTo(LeadPool, MaxLeads)
    /\ mock_messages \in SeqsUpTo(MessagePool, MaxMessages)
    /\ processed_leads = {}
    /\ processed_messages = {}
    /\ batch = <<>>
    /\ idx = 1
    /\ pass_log = <<>>
    /\ last_item = NoItem
    /\ dispatched = NoDispatch
    /\ events = {}
    /\ created = <<>>
    /\ start_weekday = 4
    /\ cal_res = NoCalRes
    /\ timer = NoTimer

calVars == <<events, start_weekday, cal_res>>

\* As Initialize, with the poll loop entered whatever initialize() returned.
Initialize_nogate ==
    /\ pc = "start"
    /\ \E thumbtack_ok \in BOOLEAN, calendar_ok \in BOOLEAN :
          /\ session_active' = thumbtack_ok
          /\ service' = (thumbtack_ok /\ calendar_ok)
    /\ pc' = "idle"
    /\ \E mode \in {"once", "daemon"} : timer' = [mode |-> mode, due |-> 0]
    /\ UNCHANGED <<gpt_available, mock_leads, mock_messages, processed_leads,
                   processed_messages, batch, idx, pass_log, last_item, dispatched,
                   created, calVars>>

\* main(): bot.initialize(), and sys.exit(1) when it returns False.  The
\* marketplace authentication sets session_active and returns True, or
\* returns False from its except clause; only after it returned True is the
\* calendar authentication tried, which builds the service or fails.  With
\* --once main() then calls run_once(); otherwise run_daemon() schedules
\* run_once every check_interval_minutes.
Initialize ==
    /\ pc = "start"
    /\ \E thumbtack_ok \in BOOLEAN, calendar_ok \in BOOLEAN, mode \in {"once", "daemon"} :
          /\ session_active' = thumbtack_ok
          /\ service' = (thumbtack_ok /\ calendar_ok)
          /\ pc' = IF thumbtack_ok /\ calendar_ok THEN "idle" ELSE "exited"
          /\ timer' = IF thumbtack_ok /\ calendar_ok
                      THEN [mode |-> mode, due |-> 0]
                      ELSE NoTimer
    /\ UNCHANGED <<gpt_available, mock_leads, mock_messages, processed_leads,
                   processed_messages, batch, idx, pass_log, last_item, dispatched,
                   created, calVars>>

\* A period of check_interval_minutes passes.  While the daemon waits it
\* looks at the schedule every minute, so the job runs before a second
\* period can pass.  A cycle never looks at the clock: the periods that pass
\* while it runs are counted at its end, before run_once returns.
Tick ==
    /\ \/ pc = "idle" /\ timer.due = 0
       \/ pc = "messages" /\ idx > Len(batch) /\ timer.due < MaxTicks
    /\ timer.mode = "daemon"
    /\ timer' = [timer EXCEPT !.due = @ + 1]
    /\ UNCHANGED <<pc, session_active, service, gpt_available, mock_leads,
                   mock_messages, processed_leads, processed_messages, batch, idx,
                   pass_log, last_item, dispatched, created, calVars>>

\* run_once() enters process_new_leads, which fetches the new leads.  In
\* daemon mode schedule.run_pending() calls run_once when the job is due.
StartCycle ==
    /\ pc = "idle"
    /\ timer.mode = "once" \/ timer.due >= 1
    /\ pc' = "leads"
    /\ batch' = get_new_leads
    /\ idx' = 1
    /\ pass_log' = <<>>
    /\ UNCHANGED <<session_active, service, gpt_available, mock_leads, mock_messages,
                   processed_leads, processed_messages, last_item, dispatched,
                   created, timer, calVars>>

\* One turn of the loop of process_new_leads that ends in `continue`.
LeadSkip ==
    /\ pc = "leads"
    /\ idx <= Len(batch)
    /\ SeenLead(batch[idx])
    /\ idx' = idx + 1
    /\ pass_log' = Append(pass_log, [id |-> batch[idx].id, outcome |-> "skipped",
                                     failed |-> FALSE])
    /\ UNCHANGED <<pc, session_active, service, gpt_available, mock_leads,
                   mock_messages, processed_leads, processed_messages, batch,
                   last_item, dispatched, created, timer, calVars>>

\* One turn of the loop of process_new_leads that handles the lead.  An
\* exception leaving the turn ends the loop in the except clause of the method.
LeadHandle ==
    /\ pc = "leads"
    /\ idx <= Len(batch)
    /\ ~SeenLead(batch[idx])
    /\ \E reply \in RepliesNow(LeadJson) : \E env \in LeadEnvs(batch[idx], reply) :
          LET lead == batch[idx]
          IN  \E res \in {LeadItem(lead, env)} :
              /\ mock_leads' = res.w.leads
              /\ mock_messages' = res.w.messages
              /\ created' = res.w.created
              /\ processed_leads' = IF res.marked THEN processed_leads \cup {lead.id}
                                    ELSE processed_leads
              /\ last_item' = [kind |-> "lead", id |-> lead.id, lead_id |-> lead.id,
                               sender |-> "customer",
                               budget_range |-> lead.budget_range,
                               reply |-> env.reply,
                               analysis |-> res.analysis,
                               fallback |-> res.fallback, handler |-> res.handler,
                               calls |-> res.w.calls, raised |-> res.raised,
                               marked |-> res.marked]
              /\ dispatched' = [dispatched EXCEPT !["lead_classified"][lead.id] = @ + 1,
                                                  !["lead_handled"][lead.id] = @ + 1]
              /\ pass_log' = Append(pass_log,
                                    [id |-> lead.id,
                                     outcome |-> IF res.raised THEN "raised"
                                                 ELSE "handled",
                                     failed |-> ItemFailed(res)])
              /\ idx' = IF res.raised THEN Len(batch) + 1 ELSE idx + 1
    /\ UNCHANGED <<pc, session_active, service, gpt_available, processed_messages,
                   batch, timer, calVars>>

\* process_new_leads is over; process_new_messages fetches the messages.
FetchMessages ==
    /\ pc = "leads"
    /\ idx > Len(batch)
    /\ pc' = "messages"
    /\ batch' = get_new_messages
    /\ idx' = 1
    /\ pass_log' = <<>>
    /\ UNCHANGED <<session_active, service, gpt_available, mock_leads, mock_messages,
                   processed_leads, processed_messages, last_item, dispatched,
                   created, timer, calVars>>

\* One turn of the loop of process_new_messages that ends in `continue`.
MessageSkip ==
    /\ pc = "messages"
    /\ idx <= Len(batch)
    /\ SkipMessage(batch[idx])
    /\ idx' = idx + 1
    /\ pass_log' = Append(pass_log, [id |-> batch[idx].id, outcome |-> "skipped",
                                     failed |-> FALSE])
    /\ UNCHANGED <<pc, session_active, service, gpt_available, mock_leads,
                   mock_messages, processed_leads, processed_messages, batch,
                   last_item, dispatched, created, timer, calVars>>

\* One turn of the loop of process_new_messages that handles the message.
MessageHandle ==
    /\ pc = "messages"
    /\ idx <= Len(batch)
    /\ ~SkipMessage(batch[idx])
    /\ \E reply \in RepliesNow(MessageJson) : \E env \in MessageEnvs(batch[idx], reply) :
          LET message == batch[idx]
          IN  \E res \in {MessageItem(message, env)} :
              /\ mock_leads' = res.w.leads
              /\ mock_messages' = res.w.messages
              /\ created' = res.w.created
              /\ processed_messages' = IF res.marked
                                       THEN processed_messages \cup {message.id}
                                       ELSE processed_messages
              /\ last_item' = [kind |-> "message", id |-> message.id,
                               lead_id |-> message.lead_id, sender |-> message.sender,
                               budget_range |-> <<>>, reply |-> env.reply,
                               analysis |-> res.analysis, fallback |-> res.fallback,
                               handler |-> res.handler, calls |-> res.w.calls,
                               raised |-> res.raised, marked |-> res.marked]
              /\ dispatched' = [dispatched EXCEPT
                                    !["message_classified"][message.id] = @ + 1,
                                    !["message_handled"][message.id] = @ + 1]
              /\ pass_log' = Append(pass_log,
                                    [id |-> message.id,
                                     outcome |-> IF res.raised THEN "raised"
                                                 ELSE "handled",
                                     failed |-> ItemFailed(res)])
              /\ idx' = IF res.raised THEN Len(batch) + 1 ELSE idx + 1
    /\ UNCHANGED <<pc, session_active, service, gpt_available, processed_leads,
                   batch, timer, calVars>>

\* As EndCycle, with one due period taken off instead of the job being
\* scheduled afresh: a tick per period is kept and each gets its cycle.
EndCycle_buffered ==
    /\ pc = "messages"
    /\ idx > Len(batch)
    /\ pc' = IF timer.mode = "once" THEN "exited" ELSE "idle"
    /\ timer' = IF timer.mode = "once" THEN timer ELSE [timer EXCEPT !.due = @ - 1]
    /\ batch' = <<>>
    /\ idx' = 1
    /\ pass_log' = <<>>
    /\ UNCHANGED <<session_active, service, gpt_available, mock_leads, mock_messages,
                   processed_leads, processed_messages, last_item, dispatched,
                   created, calVars>>

\* process_new_messages is over and with it run_once.  With --once main()
\* returns; in daemon mode the job is scheduled one period from now, so the
\* periods that passed meanwhile are forgotten.
EndCycle ==
    /\ pc = "messages"
    /\ idx > Len(batch)
    /\ pc' = IF timer.mode = "once" THEN "exited" ELSE "idle"
    /\ timer' = [timer EXCEPT !.due = 0]
    /\ batch' = <<>>
    /\ idx' = 1
    /\ pass_log' = <<>>
    /\ UNCHANGED <<session_active, service, gpt_available, mock_leads, mock_messages,
                   processed_leads, processed_messages, last_item, dispatched,
                   created, calVars>>

\* As Interrupt, without the finally clause of run_daemon: the loop ends
\* and shutdown() is not called.
Interrupt_noshutdown ==
    /\ pc = "idle"
    /\ timer.mode = "daemon"
    /\ pc' = "stopped"
    /\ UNCHANGED <<session_active, service, gpt_available, mock_leads, mock_messages,
                   processed_leads, processed_messages, batch, idx, pass_log,
                   last_item, dispatched, created, timer, calVars>>

\* KeyboardInterrupt while run_daemon sleeps between two looks at the
\* schedule: the except clause ends the loop, the finally clause calls
\* shutdown(), which calls disconnect() of the marketplace client, and
\* run_daemon and main() return.
Interrupt ==
    /\ pc = "idle"
    /\ timer.mode = "daemon"
    /\ pc' = "stopped"
    /\ session_active' = FALSE
    /\ UNCHANGED <<service, gpt_available, mock_leads, mock_messages,
                   processed_leads, processed_messages, batch, idx, pass_log,
                   last_item, dispatched, created, timer, calVars>>

Next ==
    \/ Initialize
    \/ Tick
    \/ Interrupt
    \/ StartCycle
    \/ LeadSkip
    \/ LeadHandle
    \/ FetchMessages
    \/ MessageSkip
    \/ MessageHandle
    \/ EndCycle

Spec == Init /\ [][Next]_vars

(***************************************************************************)
(* Properties of the poll cycle (checked under Spec).                      *)
(***************************************************************************)

InPass == pc \in {"leads", "messages"}

PassOver == InPass /\ idx > Len(batch)

\* The positions in the call log of the latest item.
CallIdx == 1..Len(last_item.calls)

\* Position of a status in the lifecycle NEW, CONTACTED, QUOTED, BOOKED,
\* COMPLETED; DECLINED may follow any of them.
Rank(status) ==
    CASE status = "new" -> 0
      [] status = "contacted" -> 1
      [] status = "quoted" -> 2
      [] status = "booked" -> 3
      [] status = "completed" -> 4
      [] status = "declined" -> 5

\* C1: over the whole life of the process no lead ID and no message ID is
\* classified or given to a handler more than once, also when a batch holds
\* the ID twice; and a turn of a pass for an ID that is already in the
\* ledger of its kind is a skip, which classifies and handles nothing.
C1_AtMostOnceDispatch ==
    /\ \A k \in DOMAIN dispatched : \A id \in AllIds : dispatched[k][id] <= 1
    /\ \A id \in AllIds :
          /\ dispatched["lead_handled"][id] = 1 <=> id \in processed_leads
          /\ dispatched["message_handled"][id] = 1 <=> id \in processed_messages
    /\ InPass =>
          \A i \in 1..Len(pass_log) :
             \A j \in 1..(i - 1) :
                batch[j].id = batch[i].id /\ pass_log[j].outcome = "handled"
                => pass_log[i].outcome = "skipped"

\* C1 witness: a leads pass met, for the second time in one batch, an ID
\* that had been handled and put in the ledger, and skipped it.
C1_Witness ==
    /\ pc = "leads"
    /\ Len(pass_log) = 2
    /\ batch[1].id = batch[2].id
    /\ pass_log[1].outcome = "handled"
    /\ pass_log[2].outcome = "skipped"
    /\ batch[2].id \in processed_leads
    /\ dispatched["lead_handled"][batch[2].id] = 1

\* C2: no turn of a pass ends the pass early: every item of the fetched
\* batch gets its turn, and after an item whose handling failed (no usable
\* reply of the oracle, a failed send, a failed status update) every later
\* item is classified and handled unless it is skipped as seen or as sent
\* by the business.
C2_ErrorIsolation ==
    InPass =>
        /\ idx = Len(pass_log) + 1
        /\ \A i \in 1..Len(pass_log) :
              /\ pass_log[i].id = batch[i].id
              /\ pass_log[i].outcome \in {"handled", "skipped"}
        /\ PassOver => Len(pass_log) = Len(batch)

\* C2 witness: a pass is over in which the first item failed and the second
\* item was handled after it.
C2_Witness ==
    /\ PassOver
    /\ Len(batch) = 2
    /\ pass_log[1].outcome = "handled"
    /\ pass_log[1].failed
    /\ pass_log[2].outcome = "handled"
    /\ batch[1].id # batch[2].id

\* C3: a message sent by the business is never classified and never given
\* to a handler: every turn of a messages pass for such a message is a skip,
\* the item handled last is never one, and the ID of a message the bot sent
\* is never counted as classified or handled.
C3_BusinessNeverHandled ==
    /\ last_item.kind = "message" => last_item.sender # "business"
    /\ \A id \in BotIds :
          /\ dispatched["message_classified"][id] = 0
          /\ dispatched["message_handled"][id] = 0
    /\ pc = "messages" =>
          \A i \in 1..Len(pass_log) :
             batch[i].sender = "business" => pass_log[i].outcome = "skipped"

\* C3 witness: a messages pass skipped a message the bot had sent itself,
\* whose ID is in no ledger.
C3_Witness ==
    /\ pc = "messages"
    /\ \E i \in 1..Len(pass_log) :
          /\ batch[i].sender = "business"
          /\ batch[i].id \in BotIds
          /\ batch[i].id \notin processed_messages
          /\ pass_log[i].outcome = "skipped"

\* C4: every status update the bot makes moves the lead forward in the
\* lifecycle NEW, CONTACTED, QUOTED, BOOKED, COMPLETED (or leaves it where it
\* is): the status written is never earlier than the status it replaces.
C4_StatusOnlyForward ==
    \A i \in CallIdx :
       (last_item.calls[i].op = "update_lead_status"
        /\ last_item.calls[i].prev # "missing")
       => Rank(last_item.calls[i].status) >= Rank(last_item.calls[i].prev)

\* C5: for a lead given to _handle_quote_request the status update to
\* QUOTED is made exactly when the quote message was sent successfully, and
\* then right after the send.
C5_QuotedIffSent ==
    last_item.handler = "_handle_quote_request" =>
        LET sends == {i \in CallIdx : /\ last_item.calls[i].op = "send_message"
                                       /\ last_item.calls[i].content = "quote"}
            quoted == {i \in CallIdx : /\ last_item.calls[i].op = "update_lead_status"
                                        /\ last_item.calls[i].status = "quoted"}
        IN  /\ Cardinality(sends) = 1
            /\ \A i \in sends :
                  IF last_item.calls[i].ok
                  THEN quoted = {i + 1} /\ last_item.calls[i + 1].prev # "missing"
                  ELSE quoted = {}

\* C5 witness: a quote was not sent (the send failed) and the lead was not
\* set to QUOTED.
C5_Witness ==
    /\ last_item.handler = "_handle_quote_request"
    /\ \E i \in 1..Len(last_item.calls) :
          /\ last_item.calls[i].op = "send_message"
          /\ ~last_item.calls[i].ok
    /\ \A i \in 1..Len(last_item.calls) : last_item.calls[i].status # "quoted"

\* C6: after the handling of a lead, whatever handler ran and whatever came
\* of it, the lead's ID is in the ledger and the last call of the item is the
\* status update of that lead to CONTACTED.
C6_ContactedAndMarked ==
    last_item.kind = "lead" =>
        /\ last_item.id \in processed_leads
        /\ last_item.marked
        /\ Len(last_item.calls) > 0
        /\ LET c == last_item.calls[Len(last_item.calls)]
           IN  /\ c.op = "update_lead_status"
               /\ c.lead_id = last_item.id
               /\ c.status = "contacted"

\* C6 witness: a lead whose handler failed to send its message is in the
\* ledger and its update to CONTACTED was issued.
C6_Witness ==
    /\ last_item.kind = "lead"
    /\ last_item.handler = "_handle_scheduling_request"
    /\ \E i \in 1..Len(last_item.calls) :
          /\ last_item.calls[i].op = "send_message"
          /\ ~last_item.calls[i].ok
    /\ last_item.id \in processed_leads
    /\ last_item.calls[Len(last_item.calls)].status = "contacted"

\* C7: for a lead with a budget range (min, max), min <= max, the price
\* given to send_quote is min when the candidate price is below min, max when
\* it is above max and the candidate price otherwise, so it lies in
\* [min, max]; budget (100, 200) and an oracle price of 250 give 200.
C7_BudgetClamp ==
    (/\ last_item.handler = "_handle_quote_request"
     /\ Len(last_item.budget_range) > 0
     /\ last_item.budget_range[1] <= last_item.budget_range[2])
    => LET min == last_item.budget_range[1]
           max == last_item.budget_range[2]
           p == QuotePrice(last_item.analysis)
           quotes == {i \in CallIdx : last_item.calls[i].op = "send_quote"}
       IN  /\ Cardinality(quotes) = 1
           /\ \A i \in quotes :
                 LET q == last_item.calls[i].price[1]
                 IN  /\ p < min => q = min
                     /\ p > max => q = max
                     /\ (min <= p /\ p <= max) => q = p
                     /\ min <= q /\ q <= max
           /\ (last_item.budget_range = <<100, 200>>
               /\ last_item.analysis.suggested_price = Some(250))
              => \A i \in quotes : last_item.calls[i].price = Some(200)

\* C7 witness: a lead with budget (100, 200) for which the oracle suggested
\* 250 was quoted 200.
C7_Witness ==
    /\ last_item.handler = "_handle_quote_request"
    /\ last_item.budget_range = <<100, 200>>
    /\ ~last_item.fallback
    /\ last_item.analysis.suggested_price = Some(250)
    /\ \E i \in 1..Len(last_item.calls) :
          /\ last_item.calls[i].op = "send_quote"
          /\ last_item.calls[i].price = Some(200)

\* What the calls of the latest item show about the handler that ran: a
\* quote, an offer of times (or its holding message), a calendar insertion,
\* a plain reply.
RanQuote == \E i \in CallIdx : last_item.calls[i].op = "send_quote"

RanSchedule ==
    \E i \in CallIdx : /\ last_item.calls[i].op = "send_message"
                       /\ last_item.calls[i].content \in {"offer", "holding"}

RanBooking == \E i \in CallIdx : last_item.calls[i].op = "create_event"

RanReply ==
    \E i \in CallIdx : /\ last_item.calls[i].op = "send_message"
                       /\ last_item.calls[i].content \in {"generic", "suggested_response"}

HandlersRun ==
    (IF RanQuote THEN 1 ELSE 0) + (IF RanSchedule THEN 1 ELSE 0)
    + (IF RanBooking THEN 1 ELSE 0) + (IF RanReply THEN 1 ELSE 0)

\* C11: for every intent exactly one handler runs per dispatched item.  A
\* lead goes to the quote handler for quote_request, to the scheduling
\* handler for scheduling and to the general handler for any other string; a
\* customer message goes to the scheduling handler for scheduling, to the
\* booking handler for booking, to the question handler for question and to
\* the general-message handler for any other string.
C11_RouterTotalExclusive ==
    LET intent == last_item.analysis.intent
    IN  /\ last_item.kind = "lead" =>
              /\ HandlersRun = 1
              /\ intent = "quote_request" =>
                    last_item.handler = "_handle_quote_request" /\ RanQuote
              /\ intent = "scheduling" =>
                    last_item.handler = "_handle_scheduling_request" /\ RanSchedule
              /\ intent \notin {"quote_request", "scheduling"} =>
                    last_item.handler = "_handle_general_inquiry" /\ RanReply
        /\ last_item.kind = "message" =>
              /\ HandlersRun = 1
              /\ intent = "scheduling" =>
                    last_item.handler = "_handle_scheduling_message" /\ RanSchedule
              /\ intent = "booking" =>
                    last_item.handler = "_handle_booking_confirmation" /\ RanBooking
              /\ intent = "question" =>
                    last_item.handler = "_handle_question" /\ RanReply
              /\ intent \notin {"scheduling", "booking", "question"} =>
                    last_item.handler = "_handle_general_message" /\ RanReply

\* C11 witness: a lead whose intent is none of the lead intents (the oracle
\* said "question") was answered by the general handler.
C11_Witness ==
    /\ last_item.kind = "lead"
    /\ last_item.analysis.intent = "question"
    /\ last_item.handler = "_handle_general_inquiry"
    /\ RanReply

\* C12: when a customer message with intent booking is handled and
\* create_event returns an event ID, the status update of the message's lead
\* to BOOKED is issued (and a lead the gateway knows is BOOKED afterwards)
\* and then the confirmation message is sent; when create_event returns no
\* ID, the "confirming shortly" message is sent and no status update is
\* issued.
C12_BookingOutcome ==
    last_item.handler = "_handle_booking_confirmation" =>
        LET made == {i \in CallIdx : last_item.calls[i].op = "create_event"}
            upds == {i \in CallIdx : last_item.calls[i].op = "update_lead_status"}
            sends == {i \in CallIdx : last_item.calls[i].op = "send_message"}
        IN  /\ Cardinality(made) = 1
            /\ Cardinality(sends) = 1
            /\ \A i \in made : \A j \in sends :
                  /\ last_item.calls[j].lead_id = last_item.lead_id
                  /\ IF last_item.calls[i].ok
                     THEN /\ last_item.calls[j].content = "confirmation"
                          /\ upds = {i + 1}
                          /\ j = i + 2
                          /\ last_item.calls[i + 1].status = "booked"
                          /\ last_item.calls[i + 1].lead_id = last_item.lead_id
                          /\ last_item.calls[i + 1].prev # "missing" =>
                                mock_leads[FirstLead(mock_leads,
                                                     last_item.lead_id)].status
                                = "booked"
                     ELSE /\ last_item.calls[j].content = "confirming_shortly"
                          /\ upds = {}

\* C12 witness: a booking message whose calendar insertion failed was
\* answered with the "confirming shortly" message, the lead of the gateway
\* keeping its status.
C12_Witness ==
    /\ last_item.handler = "_handle_booking_confirmation"
    /\ \E i \in CallIdx : last_item.calls[i].op = "create_event" /\ ~last_item.calls[i].ok
    /\ \E i \in CallIdx : last_item.calls[i].content = "confirming_shortly"
    /\ FirstLead(mock_leads, last_item.lead_id) # 0
    /\ mock_leads[FirstLead(mock_leads, last_item.lead_id)].status = "contacted"

\* C13: every customer message given to a handler has its ID in the message
\* ledger when its turn ends, whatever came of the handler (a send that
\* returned False, a failed calendar insertion), and no message ID is given
\* to a handler a second time.
C13_MessageAlwaysMarked ==
    /\ last_item.kind = "message" =>
          /\ last_item.marked
          /\ last_item.id \in processed_messages
          /\ last_item.calls[Len(last_item.calls)].op = "mark_message"
    /\ \A id \in AllIds :
          dispatched["message_handled"][id] >= 1 =>
             /\ id \in processed_messages
             /\ dispatched["message_handled"][id] = 1
    /\ pc = "messages" =>
          \A i \in 1..Len(pass_log) :
             pass_log[i].outcome # "skipped" => batch[i].id \in processed_messages

\* C13 witness: a message whose reply could not be sent is in the ledger,
\* and a later cycle fetched it again and skipped it.
C13_Witness ==
    /\ last_item.kind = "message"
    /\ \E i \in CallIdx : last_item.calls[i].op = "send_message" /\ ~last_item.calls[i].ok
    /\ last_item.id \in processed_messages
    /\ pc = "messages"
    /\ \E i \in 1..Len(pass_log) :
          pass_log[i].outcome = "skipped" /\ batch[i].id = last_item.id
                                          /\ batch[i].sender = "customer"
    /\ \A i \in 1..Len(pass_log) : pass_log[i].outcome = "skipped"

\* The sends of the latest item, as positions of its call log.
Sends == {i \in CallIdx : last_item.calls[i].op = "send_message"}

\* C14 as stated: every lead and every customer message that is handled
\* gets a message delivered to its lead, that is a send the gateway reports
\* as successful, before its handling ends.
C14_AlwaysDelivered ==
    last_item.kind \in {"lead", "message"} =>
        \E i \in Sends : /\ last_item.calls[i].lead_id = last_item.lead_id
                         /\ last_item.calls[i].ok

\* C14 amended: every lead and every customer message that is handled,
\* also when the oracle gave no usable reply, has exactly one message to its
\* lead handed to send_message before its ID is put in the ledger, and the
\* gateway's list holds a business message for that lead afterwards; the
\* send itself may still return False.
C14_AlwaysAttempted ==
    last_item.kind \in {"lead", "message"} =>
        /\ Cardinality(Sends) = 1
        /\ \A i \in Sends :
              /\ last_item.calls[i].lead_id = last_item.lead_id
              /\ \A j \in CallIdx :
                    last_item.calls[j].op \in {"mark_lead", "mark_message"} => i < j
        /\ \E k \in 1..Len(mock_messages) :
              /\ mock_messages[k].sender = "business"
              /\ mock_messages[k].lead_id = last_item.lead_id

\* C14 witness: the oracle gave no usable reply for a customer message and
\* the fallback reply was sent to its lead.
C14_Witness ==
    /\ last_item.kind = "message"
    /\ last_item.fallback
    /\ gpt_available
    /\ \E i \in Sends : /\ last_item.calls[i].lead_id = last_item.lead_id
                        /\ last_item.calls[i].ok

\* The oracle call of the latest item failed: no client, an error of the
\* request, a reply that is no JSON, or JSON whose confidence score is
\* outside [0, 1] (counted in tenths).
OracleFailed ==
    \/ ~gpt_available
    \/ last_item.reply.kind # "json"
    \/ /\ last_item.reply.data.confidence_score # None
       /\ last_item.reply.data.confidence_score[1] \notin 0..10

C17_StartupGating ==
    /\ (pc \in {"idle", "leads", "messages"} \/ last_item.kind # "none"
        \/ processed_leads # {} \/ processed_messages # {}
        \/ dispatched # NoDispatch)
       => (service /\ (session_active \/ pc = "stopped"))
    /\ (pc \notin {"start", "stopped", "cal", "called", "gpt", "clamp", "clamped"}
        /\ ~(session_active /\ service))
       => /\ pc = "exited"
          /\ processed_leads = {}
          /\ processed_messages = {}
          /\ batch = <<>>
          /\ last_item = NoItem
          /\ dispatched = NoDispatch
          /\ mock_messages \in SeqsUpTo(MessagePool, MaxMessages)

\* C17 witness: the marketplace authentication succeeded, the calendar
\* authentication failed, and the process exited although leads were waiting.
C17_Witness ==
    /\ pc = "exited"
    /\ session_active
    /\ ~service
    /\ Len(mock_leads) > 0
    /\ processed_leads = {}
    /\ dispatched = NoDispatch

\* C18: in daemon mode a cycle starts only when no cycle is running and the
\* scheduled job is due, its messages pass starts only when its leads pass is
\* over, and when the cycle is over the job is scheduled afresh: however
\* many periods passed while the cycle ran, none of them is left due, so
\* they cause no cycle of their own and the next cycle waits for a period
\* that ends after this one.
C18_NonOverlappingCycles ==
    [][/\ (pc' = "leads" /\ pc # "leads") =>
             /\ pc = "idle"
             /\ timer.mode = "daemon" => timer.due >= 1
       /\ (pc' = "messages" /\ pc # "messages") =>
             /\ pc = "leads"
             /\ idx > Len(batch)
       /\ (pc = "messages" /\ pc' # "messages") =>
             /\ idx > Len(batch)
             /\ timer.mode = "daemon" => (pc' = "idle" /\ timer'.due = 0)
       /\ (pc \in {"leads", "messages"} /\ timer' # timer /\ pc' = pc) =>
             UNCHANGED <<batch, idx, pass_log, last_item, mock_leads, mock_messages>>
      ]_vars

\* C18 witness: two periods have passed since the job of a daemon cycle
\* became due, and the cycle, which handled a lead, has not returned yet.
C18_Witness ==
    /\ timer.mode = "daemon"
    /\ pc = "messages"
    /\ idx > Len(batch)
    /\ timer.due >= 2
    /\ last_item.kind = "lead"

\* The calls of the latest item that go to a gateway.
GatewayOps == {"send_message", "send_quote", "update_lead_status", "create_event"}

\* The position in the call log at which the ID was put in the ledger.
Marks == {i \in CallIdx : last_item.calls[i].op \in {"mark_lead", "mark_message"}}

\* C19 as stated: for every lead and every message no gateway call (send,
\* quote, status update, calendar insertion) is issued after the item's ID
\* was put in the ledger.
C19_MarkingLast ==
    \A i \in Marks : \A j \in CallIdx :
       last_item.calls[j].op \in GatewayOps => j < i

\* C19 amended: the ID of a message is put in the ledger after every
\* gateway call of its handling; the ID of a lead is put in the ledger after
\* every call of its handler and before exactly one more gateway call, the
\* status update of that lead to CONTACTED.
C19_MarkingOrder ==
    /\ last_item.kind \in {"lead", "message"} => Cardinality(Marks) = 1
    /\ last_item.kind = "message" => Marks = {Len(last_item.calls)}
    /\ last_item.kind = "lead" =>
          /\ Marks = {Len(last_item.calls) - 1}
          /\ LET c == last_item.calls[Len(last_item.calls)]
             IN  /\ c.op = "update_lead_status"
                 /\ c.status = "contacted"
                 /\ c.lead_id = last_item.id
          /\ \E j \in CallIdx : /\ last_item.calls[j].op = "send_message"
                                /\ j < Len(last_item.calls) - 1

\* C19 witness: a lead was quoted, then put in the ledger, then set to
\* CONTACTED.
C19_Witness ==
    /\ last_item.kind = "lead"
    /\ RanQuote
    /\ Len(last_item.calls) >= 3
    /\ last_item.calls[Len(last_item.calls) - 1].op = "mark_lead"
    /\ last_item.calls[Len(last_item.calls)].op = "update_lead_status"
    /\ last_item.calls[Len(last_item.calls)].ok

\* C20: the price the quote handler starts from is the suggested price of
\* the analysis whenever there is one that is not negative, 0 included, and
\* the base price only when there is none; the price given to send_quote is
\* that price after the budget check.
C20_PriceSelection ==
    (/\ last_item.handler = "_handle_quote_request"
     /\ (last_item.analysis.suggested_price # None
         => last_item.analysis.suggested_price[1] >= 0))
    => LET p == IF last_item.analysis.suggested_price = None THEN base_price
                ELSE last_item.analysis.suggested_price[1]
           b == last_item.budget_range
           q == IF b = <<>> THEN p
                ELSE IF p > b[2] THEN b[2]
                ELSE IF p < b[1] THEN b[1]
                ELSE p
       IN  \A i \in CallIdx :
              last_item.calls[i].op = "send_quote" => last_item.calls[i].price = Some(q)

\* C24: the booking handler submits exactly one event to create_event,
\* whether or not the insertion then works: it starts at 14:00 on the day
\* after the handling and ends 2 hours later, so after its start; the lead
\* lookup having returned nothing, it has no attendees and "Client" in its
\* title; it is for the lead of the message; and an event the calendar took
\* is the last one of the inserted events.
C24_BookingEvent ==
    last_item.handler = "_handle_booking_confirmation" =>
        LET made == {i \in CallIdx : last_item.calls[i].op = "create_event"}
        IN  /\ Cardinality(made) = 1
            /\ \A i \in made :
                  LET ev == last_item.calls[i].event[1]
                  IN  /\ ev.start_time = 1 * 24 + 14
                      /\ ev.end_time = ev.start_time + 2
                      /\ ev.end_time > ev.start_time
                      /\ ev.attendees = <<>>
                      /\ ev.title = "Client"
                      /\ ev.lead_id = last_item.lead_id
                      /\ last_item.calls[i].ok =>
                            /\ Len(created) > 0
                            /\ created[Len(created)] = ev

\* C24 witness: a booking message whose lead the gateway does not know had
\* its event submitted, and the calendar refused it.
C24_Witness ==
    /\ last_item.handler = "_handle_booking_confirmation"
    /\ FirstLead(mock_leads, last_item.lead_id) = 0
    /\ \E i \in CallIdx :
          /\ last_item.calls[i].op = "create_event"
          /\ ~last_item.calls[i].ok
          /\ last_item.calls[i].event # None
          /\ last_item.calls[i].event[1].attendees = <<>>

\* The calls of the latest item made by its handler: those after the
\* analysis and before the ID is put in the ledger.
HandlerCalls == {i \in CallIdx : i > 1 /\ \A m \in Marks : i < m}

\* The times the calendar suggests to the latest item when it answers.
SuggestedNow ==
    IF last_item.kind = "lead"
    THEN LET lead == mock_leads[FirstLead(mock_leads, last_item.id)]
         IN  suggest_meeting_times(IF lead.preferred_date = None THEN Some(7)
                                   ELSE lead.preferred_date, DefaultDuration, {})
    ELSE suggest_meeting_times(None, DefaultDuration, {})

\* C25: the scheduling and general handlers of leads and the scheduling,
\* question and general handlers of messages make exactly one gateway
\* call, a send_message to the lead of the item, and neither a status
\* update nor a calendar insertion (the only status update of such a lead
\* is the one to CONTACTED the pass issues after the handler); a scheduling
\* handler sends an offer of the first 3 suggested times at most, or the
\* holding message, which lists none.
C25_HandlerFrame ==
    last_item.handler \in {"_handle_scheduling_request", "_handle_general_inquiry",
                           "_handle_scheduling_message", "_handle_question",
                           "_handle_general_message"} =>
        /\ Cardinality(HandlerCalls) = 1
        /\ \A i \in HandlerCalls :
              LET c == last_item.calls[i]
              IN  /\ c.op = "send_message"
                  /\ c.lead_id = last_item.lead_id
                  /\ IF last_item.handler \in {"_handle_scheduling_request",
                                               "_handle_scheduling_message"}
                     THEN /\ c.content \in {"offer", "holding"}
                          /\ c.content = "offer" =>
                                /\ Len(c.slots) \in 1..3
                                /\ c.slots = Take(SuggestedNow, 3)
                          /\ c.content = "holding" => c.slots = <<>>
                     ELSE /\ c.content \in {"generic", "suggested_response"}
                          /\ c.slots = <<>>
        /\ \A i \in CallIdx :
              /\ last_item.calls[i].op \notin {"create_event", "send_quote"}
              /\ last_item.calls[i].op = "update_lead_status" =>
                    /\ last_item.kind = "lead"
                    /\ i = Len(last_item.calls)
                    /\ last_item.calls[i].status = "contacted"

\* C25 witness: the scheduling handler of a message offered three of more
\* than three suggested times and issued no status update.
C25_Witness ==
    /\ last_item.handler = "_handle_scheduling_message"
    /\ Len(SuggestedNow) > 3
    /\ \E i \in HandlerCalls :
          /\ last_item.calls[i].content = "offer"
          /\ Len(last_item.calls[i].slots) = 3
    /\ \A i \in CallIdx : last_item.calls[i].op # "update_lead_status"

\* C26: the daemon stops only from its wait between two cycles, on an
\* interrupt; the step that stops it runs the shutdown, which leaves the
\* marketplace session inactive and touches neither the ledgers nor the
\* gateway's lists nor the calendar; and once stopped the process stays
\* stopped with the session inactive: no cycle starts, nothing is fetched,
\* nothing is handled.
C26_GracefulShutdown ==
    [][/\ (pc # "stopped" /\ pc' = "stopped") =>
             /\ pc = "idle"
             /\ timer.mode = "daemon"
             /\ ~session_active'
             /\ UNCHANGED <<mock_leads, mock_messages, processed_leads,
                            processed_messages, created, last_item, dispatched>>
       /\ pc = "stopped" =>
             /\ ~session_active
             /\ pc' = "stopped"
             /\ UNCHANGED <<session_active, batch, idx, pass_log, last_item,
                            dispatched, mock_leads, mock_messages, processed_leads,
                            processed_messages, created>>
      ]_vars

\* C26 witness: the daemon was interrupted after a cycle that handled a
\* lead; the session is inactive and new leads would be fetched no more.
C26_Witness ==
    /\ pc = "stopped"
    /\ timer.mode = "daemon"
    /\ ~session_active
    /\ last_item.kind # "none"
    /\ processed_leads # {}
    /\ get_new_leads = <<>>
    /\ batch = <<>>

\* The messages the bot has sent: those of the gateway's list with sender
\* "business" (the list holds none at the start).
Outbound == {k \in 1..Len(mock_messages) : mock_messages[k].sender = "business"}

\* C27: every lead and every customer message handled causes at most one
\* send_message; a message the bot sent is fetched again by later passes
\* and is never classified or handled; so the number of messages sent never
\* exceeds the number of lead IDs plus the number of message IDs handled;
\* and a step of a cycle that handles no item (a skip, a fetch, the end of
\* a pass) sends nothing and leaves both ledgers, the gateway's lists and
\* the calendar as they are.
C27_NoFeedbackLoop ==
    /\ [](/\ Cardinality(Sends) <= 1
          /\ \A id \in BotIds : /\ dispatched["message_classified"][id] = 0
                                /\ dispatched["message_handled"][id] = 0
                                /\ dispatched["lead_handled"][id] = 0
          /\ last_item.kind = "message" => last_item.sender = "customer"
          /\ Cardinality(Outbound)
                <= Cardinality({id \in AllIds : dispatched["lead_handled"][id] >= 1})
                   + Cardinality({id \in AllIds : dispatched["message_handled"][id] >= 1}))
    /\ [][dispatched' = dispatched =>
             UNCHANGED <<mock_leads, mock_messages, processed_leads,
                         processed_messages, created>>]_vars

\* C27 witness: a later cycle of the daemon fetched the customer message it
\* had answered together with the messages the bot had sent, at least two,
\* and skipped them all.
C27_Witness ==
    /\ pc = "messages"
    /\ PassOver
    /\ Len(pass_log) >= 3
    /\ \A i \in 1..Len(pass_log) : pass_log[i].outcome = "skipped"
    /\ \E i \in 1..Len(batch) : batch[i].sender = "customer"
    /\ Cardinality(Outbound) >= 2
    /\ processed_messages # {}

\* C29: a customer message with intent booking has create_event called
\* exactly once in its handling, as the first call after the analysis (no
\* availability check comes before it), and no other item has it called;
\* the list of inserted events grows only in the handling of such a
\* message, handled for the first and only time, and then by one event; so
\* there are never more inserted events than message IDs handled, and all
\* inserted events have the same start and the same end, whatever the
\* calendar already holds.
C29_OneEventPerMessage ==
    /\ [](/\ last_item.kind \in {"lead", "message"} =>
                LET made == {i \in CallIdx : last_item.calls[i].op = "create_event"}
                IN  IF last_item.kind = "message" /\ last_item.analysis.intent = "booking"
                    THEN made = {2} /\ last_item.calls[1].op = "analyze_message"
                    ELSE made = {}
          /\ Len(created) <= Cardinality(processed_messages)
          /\ \A i \in 1..Len(created) : \A j \in 1..Len(created) :
                /\ created[i].start_time = created[j].start_time
                /\ created[i].end_time = created[j].end_time)
    /\ [][created' # created =>
             /\ Len(created') = Len(created) + 1
             /\ SubSeq(created', 1, Len(created)) = created
             /\ last_item'.kind = "message"
             /\ last_item'.analysis.intent = "booking"
             /\ created'[Len(created')].lead_id = last_item'.lead_id
             /\ dispatched["message_handled"][last_item'.id] = 0
             /\ dispatched'["message_handled"][last_item'.id] = 1]_vars

\* C29 witness: two booking messages with different IDs were handled and
\* the calendar holds two events of the bot with the same start and end.
C29_Witness ==
    /\ Len(created) = 2
    /\ created[1].start_time = created[2].start_time
    /\ created[1].end_time = created[2].end_time
    /\ Cardinality(processed_messages) = 2
    /\ last_item.kind = "message"
    /\ last_item.analysis.intent = "booking"

\* C30: the two ledgers are kept apart and only grow.  A turn of the leads
\* pass skips its lead exactly when the lead's ID is in the lead ledger, and
\* a turn of the messages pass skips a customer message exactly when its ID
\* is in the message ledger, whatever the other ledger holds; no step takes
\* an ID out of a ledger; a step that adds to one ledger leaves the other
\* alone; and after every turn, so at every cycle boundary, each ledger
\* holds exactly the IDs that were given to a handler of its kind.
C30_LedgersIndependent ==
    /\ [](\A id \in AllIds :
             /\ id \in processed_leads <=> dispatched["lead_handled"][id] >= 1
             /\ id \in processed_messages <=> dispatched["message_handled"][id] >= 1)
    /\ [][/\ processed_leads \subseteq processed_leads'
          /\ processed_messages \subseteq processed_messages'
          /\ processed_leads' # processed_leads =>
                /\ processed_messages' = processed_messages
                /\ processed_leads' = processed_leads \cup {last_item'.id}
                /\ last_item'.kind = "lead"
          /\ processed_messages' # processed_messages =>
                /\ processed_leads' = processed_leads
                /\ processed_messages' = processed_messages \cup {last_item'.id}
                /\ last_item'.kind = "message"
          /\ (pc = "leads" /\ pc' = "leads" /\ idx' # idx) =>
                (pass_log'[idx].outcome = "skipped"
                 <=> batch[idx].id \in processed_leads)
          /\ (pc = "messages" /\ pc' = "messages" /\ idx' # idx
              /\ batch[idx].sender = "customer") =>
                (pass_log'[idx].outcome = "skipped"
                 <=> batch[idx].id \in processed_messages)
          ]_vars

\* C30 witness: a customer message whose ID is also the ID of a lead in the
\* lead ledger was handled, and both ledgers now hold that ID.
C30_Witness ==
    /\ last_item.kind = "message"
    /\ last_item.id \in processed_leads
    /\ last_item.id \in processed_messages
    /\ dispatched["lead_handled"][last_item.id] = 1
    /\ dispatched["message_handled"][last_item.id] = 1

\* C22: every analysis that analyze_lead or analyze_message returns to the
\* pass, built from a reply of the oracle or the fallback, has a confidence
\* score in [0, 1] (counted in tenths) and a suggested price that is absent
\* or not negative; and the price of every quote sent is not negative.
C22_AnalysisSchema ==
    last_item.kind \in {"lead", "message"} =>
        /\ last_item.analysis.confidence_score \in 0..10
        /\ last_item.analysis.suggested_price # None =>
              last_item.analysis.suggested_price[1] >= 0
        /\ \A i \in CallIdx :
              last_item.calls[i].op = "send_quote" => last_item.calls[i].price[1] >= 0

(***************************************************************************)
(* Direct use of CalendarClient, as test.py and demo_test.py make it: a    *)
(* client is built, authentication succeeds or not, and the search methods *)
(* are called on whatever the calendar holds.                              *)
(***************************************************************************)

CalDays == 1..2

EventShapes == {<<10, 12>>, <<9, 15>>, <<9, 17>>}

\* Timed events (dateTime with an offset) and all-day events (a bare date).
EventPool ==
    {[start |-> d * 24 + sh[1], end |-> d * 24 + sh[2], aware |-> TRUE] :
        d \in CalDays, sh \in EventShapes}
    \cup {[start |-> d * 24, end |-> (d + 1) * 24, aware |-> FALSE] : d \in CalDays}

BusinessHoursPool == {DefaultBusinessHours, <<13, 15>>}

QueryFailPool == {1 * 24 + 9, 1 * 24 + 12, 2 * 24 + 13}

QueryFailSets == {q \in SUBSET QueryFailPool : Cardinality(q) <= MaxQueryFailures}

InitCal ==
    /\ pc = "cal"
    /\ session_active = FALSE
    /\ service \in BOOLEAN
    /\ gpt_available = FALSE
    /\ mock_leads = <<>>
    /\ mock_messages = <<>>
    /\ processed_leads = {}
    /\ processed_messages = {}
    /\ batch = <<>>
    /\ idx = 1
    /\ pass_log = <<>>
    /\ last_item = NoItem
    /\ dispatched = NoDispatch
    /\ events \in {e \in SUBSET EventPool : Cardinality(e) <= MaxEvents}
    /\ created = <<>>
    /\ start_weekday \in 0..6
    /\ cal_res = NoCalRes
    /\ timer = NoTimer

CallGetAvailableSlots ==
    /\ pc = "cal"
    /\ \E day \in CalDays, duration_hours \in 1..MaxDur,
          business_hours \in BusinessHoursPool, qfail \in QueryFailSets :
          cal_res' = [op |-> "get_available_slots", day |-> Some(day),
                      duration_hours |-> duration_hours,
                      business_hours |-> business_hours, qfail |-> qfail,
                      queries |-> SlotQueries(day, duration_hours, business_hours),
                      result |-> get_available_slots(day, duration_hours,
                                                     business_hours, qfail)]
    /\ pc' = "called"
    /\ UNCHANGED <<service, events, start_weekday, session_active, gpt_available,
                   mock_leads, mock_messages, processed_leads, processed_messages,
                   batch, idx, pass_log, last_item, dispatched, created, timer>>

CallSuggestMeetingTimes ==
    /\ pc = "cal"
    /\ \E preferred_date \in {None} \cup {Some(d) : d \in CalDays},
          duration_hours \in 1..MaxDur, qfail \in QueryFailSets :
          cal_res' = [op |-> "suggest_meeting_times", day |-> preferred_date,
                      duration_hours |-> duration_hours,
                      business_hours |-> DefaultBusinessHours, qfail |-> qfail,
                      queries |-> <<>>,
                      result |-> suggest_meeting_times(preferred_date,
                                                       duration_hours, qfail)]
    /\ pc' = "called"
    /\ UNCHANGED <<service, events, start_weekday, session_active, gpt_available,
                   mock_leads, mock_messages, processed_leads, processed_messages,
                   batch, idx, pass_log, last_item, dispatched, created, timer>>

NextCal == CallGetAvailableSlots \/ CallSuggestMeetingTimes

SpecCal == InitCal /\ [][NextCal]_vars

(***************************************************************************)
(* Direct use of GPTClient, as test.py makes it: a client is built, with   *)
(* or without a connection, and a lead is analysed, a message is analysed  *)
(* and a quote text is generated, more than once.  batch holds the lead,   *)
(* pass_log the calls made so far with the requests each one issued.       *)
(***************************************************************************)

MaxCalls == 2           \* calls of GPTClient methods on the one lead

GptLeadPool ==
    {[id |-> "a", status |-> "new", budget_range |-> b, preferred_date |-> None,
      service_category |-> c] :
        b \in {<<>>, <<100, 200>>, <<300, 500>>, <<50, 100>>},
        c \in {"Photography", "Home Repairs"}}

InitGpt ==
    /\ pc = "gpt"
    /\ session_active = FALSE
    /\ service = FALSE
    /\ gpt_available \in BOOLEAN
    /\ mock_leads = <<>>
    /\ mock_messages = <<>>
    /\ processed_leads = {}
    /\ processed_messages = {}
    /\ batch \in {<<lead>> : lead \in GptLeadPool}
    /\ idx = 1
    /\ pass_log = <<>>
    /\ last_item = NoItem
    /\ dispatched = NoDispatch
    /\ events = {}
    /\ created = <<>>
    /\ start_weekday = 4
    /\ cal_res = NoCalRes
    /\ timer = NoTimer

CallAnalyzeLead ==
    /\ pc = "gpt"
    /\ Len(pass_log) < MaxCalls
    /\ \E reply \in RepliesNow(LeadJson) :
          \E got \in {analyze_lead(batch[1], reply)} :
             pass_log' = Append(pass_log, [op |-> "analyze_lead", reply |-> reply,
                                           analysis |-> got.analysis,
                                           fallback |-> got.fallback,
                                           requests |-> CreateCalls(reply)])
    /\ UNCHANGED <<pc, session_active, service, gpt_available, mock_leads,
                   mock_messages, processed_leads, processed_messages, batch, idx,
                   last_item, dispatched, created, timer, calVars>>

CallAnalyzeMessage ==
    /\ pc = "gpt"
    /\ Len(pass_log) < MaxCalls
    /\ \E reply \in RepliesNow(MessageJson), message \in MessagePool :
          \E got \in {analyze_message(message, reply)} :
             pass_log' = Append(pass_log, [op |-> "analyze_message", reply |-> reply,
                                           analysis |-> got.analysis,
                                           fallback |-> got.fallback,
                                           requests |-> CreateCalls(reply)])
    /\ UNCHANGED <<pc, session_active, service, gpt_available, mock_leads,
                   mock_messages, processed_leads, processed_messages, batch, idx,
                   last_item, dispatched, created, timer, calVars>>

CallGenerateQuoteResponse ==
    /\ pc = "gpt"
    /\ Len(pass_log) < MaxCalls
    /\ \E reply \in RepliesNow({NoJson}) :
          \E got \in {generate_quote_response(batch[1], base_price, reply)} :
             pass_log' = Append(pass_log, [op |-> "generate_quote_response",
                                           reply |-> reply,
                                           analysis |-> _get_fallback_analysis(batch[1]),
                                           fallback |-> got.fallback,
                                           requests |-> CreateCalls(reply)])
    /\ UNCHANGED <<pc, session_active, service, gpt_available, mock_leads,
                   mock_messages, processed_leads, processed_messages, batch, idx,
                   last_item, dispatched, created, timer, calVars>>

NextGpt == CallAnalyzeLead \/ CallAnalyzeMessage \/ CallGenerateQuoteResponse

SpecGpt == InitGpt /\ [][NextGpt]_vars

\* C16: when the oracle is unavailable or its call fails, analyze_lead
\* returns sentiment neutral, intent quote_request, urgency medium, the
\* lead's service category as the only key requirement, confidence 0.5 and
\* as suggested price the base price clamped into the lead's budget range,
\* or the base price when the lead has none; two such calls on the same lead
\* return the same analysis.
C16_FallbackLeadAnalysis ==
    pc = "gpt" =>
        LET lead == batch[1]
            price == IF lead.budget_range = <<>> THEN base_price
                     ELSE IF base_price < lead.budget_range[1] THEN lead.budget_range[1]
                     ELSE IF base_price > lead.budget_range[2] THEN lead.budget_range[2]
                     ELSE base_price
        IN  \A i \in {k \in 1..Len(pass_log) : pass_log[k].op = "analyze_lead"} :
               (\/ ~gpt_available
                \/ pass_log[i].reply.kind # "json"
                \/ /\ pass_log[i].reply.data.confidence_score # None
                   /\ pass_log[i].reply.data.confidence_score[1] \notin 0..10) =>
                  /\ pass_log[i].fallback
                  /\ pass_log[i].analysis.sentiment = "neutral"
                  /\ pass_log[i].analysis.intent = "quote_request"
                  /\ pass_log[i].analysis.urgency = "medium"
                  /\ pass_log[i].analysis.key_requirements = <<lead.service_category>>
                  /\ pass_log[i].analysis.confidence_score = 5
                  /\ pass_log[i].analysis.suggested_price = Some(price)
                  /\ \A j \in 1..Len(pass_log) :
                        (pass_log[j].op = "analyze_lead" /\ pass_log[j].fallback) =>
                           pass_log[j].analysis = pass_log[i].analysis

\* C16 witness: two failed calls on a lead whose budget (300, 500) lies
\* above the base price both returned the suggested price 300.
C16_Witness ==
    /\ pc = "gpt"
    /\ Len(pass_log) = 2
    /\ pass_log[1].op = "analyze_lead"
    /\ pass_log[2].op = "analyze_lead"
    /\ batch[1].budget_range = <<300, 500>>
    /\ pass_log[1].reply.kind = "error"
    /\ pass_log[2].reply.kind = "not_json"
    /\ pass_log[1].analysis.suggested_price = Some(300)
    /\ pass_log[2].analysis.suggested_price = Some(300)

MaxPrice == 4           \* largest price and budget end tried

InitClamp ==
    /\ pc = "clamp"
    /\ session_active = FALSE
    /\ service = FALSE
    /\ gpt_available = FALSE
    /\ mock_leads = <<>>
    /\ mock_messages = <<>>
    /\ processed_leads = {}
    /\ processed_messages = {}
    /\ batch = <<>>
    /\ idx = 1
    /\ pass_log = <<>>
    /\ last_item = NoItem
    /\ dispatched = NoDispatch
    /\ events = {}
    /\ created = <<>>
    /\ start_weekday = 4
    /\ cal_res = NoCalRes
    /\ timer = NoTimer

CallClamp ==
    /\ pc = "clamp"
    /\ \E price \in (-1)..MaxPrice, min_budget \in 0..MaxPrice, max_budget \in 0..MaxPrice :
          LET budget_range == <<min_budget, max_budget>>
              suggested == FallbackClamp(price, budget_range)
          IN  cal_res' = [op |-> "clamp", price |-> price,
                          budget_range |-> budget_range,
                          fallback |-> suggested,
                          handler |-> ClampBudget(price, budget_range),
                          requoted |-> ClampBudget(PriceOr(Some(suggested), price),
                                                   budget_range)]
    /\ pc' = "clamped"
    /\ UNCHANGED <<service, events, start_weekday, session_active, gpt_available,
                   mock_leads, mock_messages, processed_leads, processed_messages,
                   batch, idx, pass_log, last_item, dispatched, created, timer>>

NextClamp == CallClamp

SpecClamp == InitClamp /\ [][NextClamp]_vars

\* C28: for every base price and every budget range (min, max) with
\* min <= max the budget check of the quote handler and the clamp of the
\* fallback analysis give the same price, which lies in [min, max]; and the
\* quote handler, given the price the fallback analysis suggested, quotes
\* that price unchanged.
C28_ClampsAgree ==
    (cal_res.op = "clamp" /\ cal_res.budget_range[1] <= cal_res.budget_range[2]) =>
        /\ cal_res.handler = cal_res.fallback
        /\ cal_res.fallback >= cal_res.budget_range[1]
        /\ cal_res.fallback <= cal_res.budget_range[2]
        /\ cal_res.requoted = cal_res.fallback

\* C28 witness: a price below the budget range was raised to its lower end
\* by both checks.
C28_Witness ==
    /\ cal_res.op = "clamp"
    /\ cal_res.budget_range = <<2, 3>>
    /\ cal_res.price = 1
    /\ cal_res.fallback = 2
    /\ cal_res.handler = 2
    /\ cal_res.requoted = 2

(***************************************************************************)
(* Properties of the slot search (checked under SpecCal).                  *)
(***************************************************************************)

\* The hourly starts get_available_slots asks about.
CandidateStarts(res) ==
    {res.day[1] * 24 + h :
        h \in res.business_hours[1]..(res.business_hours[2] - res.duration_hours)}

NoQueryFailed(res) == res.qfail \cap CandidateStarts(res) = {}

Overlaps(a, b, c, d) == a < d /\ c < b

\* The entries of a suggestion list that lie on one day, in order.
OnDay(times, day) == SelectSeq(times, LAMBDA t : t \div 24 = day)

IsPrefix(s, t) == Len(s) <= Len(t) /\ s = SubSeq(t, 1, Len(s))

IsIncreasing(s) == \A i \in 1..Len(s) : \A j \in 1..Len(s) : i < j => s[i] < s[j]

SearchDays == 0..9

\* C8: with the calendar answering every query, get_available_slots
\* returns a candidate start s exactly when no calendar event [c,d) overlaps
\* [s, s+duration) in the half-open sense, so an event ending at s or
\* starting at s+duration does not block s; with hours (9,17), the single
\* event [10,12) and 2-hour slots the result is 12:00, 13:00, 14:00, 15:00.
C8_SlotFiltering ==
    (cal_res.op = "get_available_slots" /\ service /\ NoQueryFailed(cal_res)) =>
        /\ SeqToSet(cal_res.result) \subseteq CandidateStarts(cal_res)
        /\ \A s \in CandidateStarts(cal_res) :
              (s \in SeqToSet(cal_res.result)) <=>
              ~(\E ev \in events :
                  Overlaps(s, s + cal_res.duration_hours, ev.start, ev.end))
        /\ (/\ events = {[start |-> 24 + 10, end |-> 24 + 12, aware |-> TRUE]}
            /\ cal_res.day = Some(1)
            /\ cal_res.business_hours = <<9, 17>>
            /\ cal_res.duration_hours = 2)
           => cal_res.result = <<24 + 12, 24 + 13, 24 + 14, 24 + 15>>

\* C8 witness: the search ran over the event [10,12) and returned the start
\* 12:00, at which that event ends.
C8_Witness ==
    /\ cal_res.op = "get_available_slots"
    /\ service
    /\ NoQueryFailed(cal_res)
    /\ events = {[start |-> 24 + 10, end |-> 24 + 12, aware |-> TRUE]}
    /\ cal_res.day = Some(1)
    /\ cal_res.business_hours = <<9, 17>>
    /\ cal_res.duration_hours = 2
    /\ cal_res.result = <<24 + 12, 24 + 13, 24 + 14, 24 + 15>>

\* C9: when the calendar service is not initialised or one of the conflict
\* queries of the call raises, get_available_slots returns the empty list.
C9_FailureYieldsEmpty ==
    (/\ cal_res.op = "get_available_slots"
     /\ (~service \/ ~NoQueryFailed(cal_res)))
    => cal_res.result = <<>>

\* C10: suggest_meeting_times returns at most 6 entries, in increasing order,
\* none on a Saturday or Sunday, and the entries of one day are (a prefix
\* of) the first 3 free slots of that day, so at most 3.
C10_SuggestionCaps ==
    cal_res.op = "suggest_meeting_times" =>
        /\ Len(cal_res.result) <= 6
        /\ IsIncreasing(cal_res.result)
        /\ \A i \in 1..Len(cal_res.result) : cal_res.result[i] \div 24 \in SearchDays
        /\ \A day \in SearchDays :
              /\ Len(OnDay(cal_res.result, day)) <= 3
              /\ weekday(day) >= 5 => OnDay(cal_res.result, day) = <<>>
              /\ IsPrefix(OnDay(cal_res.result, day),
                          Take(get_available_slots(day, cal_res.duration_hours,
                                                   DefaultBusinessHours,
                                                   cal_res.qfail), 3))

\* C10 witness: a search starting on a Friday with more than 3 free slots
\* returned 3 entries of the Friday and 3 of the following Monday.
C10_Witness ==
    /\ cal_res.op = "suggest_meeting_times"
    /\ Len(cal_res.result) = 6
    /\ weekday(cal_res.result[1] \div 24) = 4
    /\ weekday(cal_res.result[4] \div 24) = 0
    /\ cal_res.result[4] \div 24 = cal_res.result[1] \div 24 + 3
    /\ Len(get_available_slots(cal_res.result[1] \div 24, cal_res.duration_hours,
                               DefaultBusinessHours, cal_res.qfail)) > 3

\* C21: with the service initialised, get_available_slots asks the calendar
\* exactly once about every hourly start s of the date with
\* start_hour <= s and s + duration <= end_hour, in increasing order and
\* whatever the earlier answers were; it returns, in strictly increasing
\* order, the starts whose check succeeded; every returned start has
\* s + duration <= end_hour; and nothing is asked or returned when the
\* duration is longer than the business day.
C21_SlotEnumeration ==
    (cal_res.op = "get_available_slots" /\ service) =>
        LET day == cal_res.day[1]
            d == cal_res.duration_hours
            startHour == cal_res.business_hours[1]
            endHour == cal_res.business_hours[2]
            q == cal_res.queries
        IN  /\ SeqToSet(q) = {day * 24 + h : h \in {x \in startHour..endHour : x + d <= endHour}}
            /\ IsIncreasing(q)
            /\ Len(q) = IF d > endHour - startHour THEN 0 ELSE endHour - startHour - d + 1
            /\ IsIncreasing(cal_res.result)
            /\ SeqToSet(cal_res.result) =
                  {s \in SeqToSet(q) : check_availability(s, s + d, cal_res.qfail)}
            /\ \A i \in 1..Len(cal_res.result) :
                  /\ cal_res.result[i] >= day * 24 + startHour
                  /\ cal_res.result[i] + d <= day * 24 + endHour
            /\ d > endHour - startHour => cal_res.result = <<>>

\* C21 witness: over the event [10,12) the sweep of (9,17) with 2-hour slots
\* asked about all seven starts 9:00 to 15:00, the first three of which are
\* blocked, and returned the four after them.
C21_Witness ==
    /\ cal_res.op = "get_available_slots"
    /\ service
    /\ events = {[start |-> 24 + 10, end |-> 24 + 12, aware |-> TRUE]}
    /\ cal_res.day = Some(1)
    /\ cal_res.business_hours = <<9, 17>>
    /\ cal_res.duration_hours = 2
    /\ cal_res.qfail = {}
    /\ Len(cal_res.queries) = 7
    /\ cal_res.queries[1] = 24 + 9
    /\ cal_res.queries[7] = 24 + 15
    /\ cal_res.result = <<24 + 12, 24 + 13, 24 + 14, 24 + 15>>

====
